---- MODULE Spec2Model ----
(***************************************************************************)
(* The two choropleth scripts, scripts/coloring-countries/color_world_map.py *)
(* (main) and scripts/pain-to-map.py (generate_map), as one state machine: *)
(* a run picks a script, its arguments, a value table and a geometry       *)
(* dataset, and then walks the script's statements in order.               *)
(*                                                                         *)
(* Tables are [cols, rows]: a set of column names and a sequence of rows,  *)
(* each row a function from the column names to cells.  A code or value    *)
(* cell is a sequence of one-character strings (its text) or NaN; a name   *)
(* cell is a string; a geometry cell is the polygon's number.              *)
(***************************************************************************)
EXTENDS Integers, Sequences, FiniteSets, TLC

\* Bounds of the model: rows of the value table, rows of the geometry dataset.
MaxRows == 2
MaxGeo == 2

-----------------------------------------------------------------------------
(* Cells and strings *)

\* pandas' missing value
NaN == <<"NaN">>

IsNa(cell) == cell = NaN

\* str.upper(), character by character
UpperChar(c) ==
  CASE c = "a" -> "A" [] c = "f" -> "F" [] c = "i" -> "I" [] c = "j" -> "J"
    [] c = "n" -> "N" [] c = "o" -> "O" [] c = "r" -> "R"
    [] OTHER -> c

Upper(s) == [i \in 1..Len(s) |-> UpperChar(s[i])]

IsSpace(c) == c = " "

RECURSIVE LStrip(_)
LStrip(s) == IF s # <<>> /\ IsSpace(Head(s)) THEN LStrip(Tail(s)) ELSE s

RECURSIVE RStrip(_)
RStrip(s) ==
  IF s # <<>> /\ IsSpace(s[Len(s)]) THEN RStrip(SubSeq(s, 1, Len(s) - 1)) ELSE s

\* str.strip()
Strip(s) == RStrip(LStrip(s))

\* astype(str): a missing value becomes the text "nan"
AsStr(cell) == IF IsNa(cell) THEN <<"n", "a", "n">> ELSE cell

NoStripClean(cell) == Upper(AsStr(cell))

\* .astype(str).str.upper().str.strip() on one cell
CleanCode(cell) == Strip(Upper(AsStr(cell)))

\* Code points of the characters that occur, for sorted()
CharRank(c) ==
  CASE c = " " -> 32 [] c = "-" -> 45 [] c = "1" -> 49 [] c = "9" -> 57
    [] c = "A" -> 65 [] c = "F" -> 70 [] c = "I" -> 73 [] c = "J" -> 74
    [] c = "L" -> 76 [] c = "N" -> 78 [] c = "O" -> 79 [] c = "R" -> 82
    [] c = "S" -> 83 [] c = "a" -> 97 [] c = "f" -> 102 [] c = "i" -> 105
    [] c = "j" -> 106 [] c = "n" -> 110 [] c = "o" -> 111 [] c = "r" -> 114
    [] OTHER -> 0

\* Python's string order: s < t
RECURSIVE StrLess(_, _)
StrLess(s, t) ==
  IF t = <<>> THEN FALSE
  ELSE IF s = <<>> THEN TRUE
  ELSE IF Head(s) = Head(t) THEN StrLess(Tail(s), Tail(t))
  ELSE CharRank(Head(s)) < CharRank(Head(t))

\* sorted(S) of a set of strings
RECURSIVE Sorted(_)
Sorted(S) ==
  IF S = {} THEN <<>>
  ELSE LET m == CHOOSE x \in S : \A y \in S \ {x} : StrLess(x, y)
       IN <<m>> \o Sorted(S \ {m})

-----------------------------------------------------------------------------
(* Tables *)

EmptyTable == [cols |-> {}, rows |-> <<>>]

\* t[col]: the column's cells, in row order
Column(t, col) == [i \in 1..Len(t.rows) |-> t.rows[i][col]]

\* t[col] = cells, row by row; the column is added if it is new
SetColumn(t, col, cells) ==
  [cols |-> t.cols \cup {col},
   rows |-> [i \in 1..Len(t.rows) |->
              [c \in t.cols \cup {col} |->
                IF c = col THEN cells[i] ELSE t.rows[i][c]]]]

\* t.loc[t[maskCol] == maskVal, col] = val; a new column is NaN elsewhere
LocAssign(t, maskCol, maskVal, col, val) ==
  SetColumn(t, col,
            [i \in 1..Len(t.rows) |->
              IF t.rows[i][maskCol] = maskVal THEN val
              ELSE IF col \in t.cols THEN t.rows[i][col] ELSE NaN])

\* t[[c1, c2, ...]]
Select(t, cs) ==
  [cols |-> cs, rows |-> [i \in 1..Len(t.rows) |-> [c \in cs |-> t.rows[i][c]]]]

\* The indices of the right rows whose key equals k, in row order
Matches(right, right_on, k) ==
  SelectSeq([j \in 1..Len(right.rows) |-> j],
            LAMBDA j : right.rows[j][right_on] = k)

\* The columns both sides have, other than a join key of one name
Overlap(left, right, left_on, right_on) ==
  (left.cols \cap right.cols) \ (IF left_on = right_on THEN {left_on} ELSE {})

\* One row of the merge's result: the left row's cells beside the right row's
JoinRow(left, right, left_on, right_on, l, r) ==
  LET ov == Overlap(left, right, left_on, right_on)
      LName(c) == IF c \in ov THEN c \o "_x" ELSE c
      RName(c) == IF c \in ov THEN c \o "_y" ELSE c
      names == {LName(c) : c \in left.cols} \cup {RName(c) : c \in right.cols}
  IN [n \in names |->
       IF \E c \in left.cols : LName(c) = n
       THEN l[CHOOSE c \in left.cols : LName(c) = n]
       ELSE r[CHOOSE c \in right.cols : RName(c) = n]]

MergedCols(left, right, left_on, right_on) ==
  LET ov == Overlap(left, right, left_on, right_on)
  IN {IF c \in ov THEN c \o "_x" ELSE c : c \in left.cols}
       \cup {IF c \in ov THEN c \o "_y" ELSE c : c \in right.cols}

\* The rows a left row yields: one per matching right row, or one with NaN
LeftRowsFor(left, right, left_on, right_on, l) ==
  LET m == Matches(right, right_on, l[left_on])
      nan == [c \in right.cols |-> NaN]
  IN IF m = <<>>
     THEN <<JoinRow(left, right, left_on, right_on, l, nan)>>
     ELSE [k \in 1..Len(m) |->
            JoinRow(left, right, left_on, right_on, l, right.rows[m[k]])]

InnerRowsFor(left, right, left_on, right_on, l) ==
  LET m == Matches(right, right_on, l[left_on])
  IN [k \in 1..Len(m) |->
       JoinRow(left, right, left_on, right_on, l, right.rows[m[k]])]

\* The rows of one left row under how="left"
MergeRowsFor(left, right, left_on, right_on, l) ==
  LeftRowsFor(left, right, left_on, right_on, l)

RECURSIVE MergeFrom(_, _, _, _, _)
MergeFrom(left, right, left_on, right_on, i) ==
  IF i > Len(left.rows) THEN <<>>
  ELSE MergeRowsFor(left, right, left_on, right_on, left.rows[i])
         \o MergeFrom(left, right, left_on, right_on, i + 1)

\* left.merge(right, left_on=..., right_on=..., how="left")
Merge(left, right, left_on, right_on) ==
  [cols |-> MergedCols(left, right, left_on, right_on),
   rows |-> MergeFrom(left, right, left_on, right_on, 1)]

-----------------------------------------------------------------------------
(* Inputs of a run *)

Scripts == {"color_world_map", "pain_to_map"}

\* --scheme left out (argparse's default None)
NoScheme == "<None>"

\* The values of --scheme that are tried
Schemes == {NoScheme, "Quantiles", "heat"}

\* --missing-color's default, and pain-to-map's args_missing_color
MissingColor == "#EEEEEE"

\* pain-to-map's CODE_COLUMN
CODE_COLUMN == "SOV_A3"

\* The column color_world_map joins on
ISO_A3 == "iso_a3"

FRA == <<"F", "R", "A">>
NOR == <<"N", "O", "R">>
SOL == <<"S", "O", "L">>

\* The code column's default name in each script
DefaultCodeCol(s) == IF s = "color_world_map" THEN "iso_a3" ELSE "sov_a3"

\* The names tried for the value column: color_world_map's default, and for
\* generate_map its default and another
ValueCols(s) == IF s = "color_world_map" THEN {"value"} ELSE {"value", "score"}

\* Rows of the external dataset: the country's name, its code, its polygon
NaturalEarth ==
  << [name |-> "France",     code |-> <<"-", "9", "9">>, geometry |-> 1],
     [name |-> "Norway",     code |-> <<"-", "9", "9">>, geometry |-> 2],
     [name |-> "Norway",     code |-> NOR,               geometry |-> 3],
     [name |-> "Fiji",       code |-> <<"f", "j", "i">>, geometry |-> 4],
     [name |-> "Somaliland", code |-> <<"-", "9", "9">>, geometry |-> 5] >>

\* The datasets tried: up to MaxGeo neighbouring rows of NaturalEarth
Datasets ==
  {SubSeq(NaturalEarth, i, j) :
     <<i, j>> \in {p \in (1..Len(NaturalEarth)) \X (1..Len(NaturalEarth)) :
                     p[1] <= p[2] /\ p[2] - p[1] < MaxGeo}}

\* The code and value cells tried in the value table
InputCodes == {NOR, <<" ", "n", "o", "r">>, <<"f", "j", "i">>, NaN}

InputValues == {NaN, <<"1">>}

InputRows == [code : InputCodes, val : InputValues]

\* The column layouts tried, for a code column named cc
Layouts(cc) == {{cc, "value"}, {cc, "score"}, {"value"}}

\* The value table with the columns cols, holding the rows rs
MakeTable(cols, cc, rs) ==
  [cols |-> cols,
   rows |-> [i \in 1..Len(rs) |->
              [c \in cols |-> IF c = cc THEN rs[i].code ELSE rs[i].val]]]

InputTables(cc) ==
  {MakeTable(cols, cc, rs) :
     <<cols, rs>> \in Layouts(cc) \X (UNION {[1..n -> InputRows] : n \in 0..MaxRows})}

-----------------------------------------------------------------------------
(* State *)

VARIABLES
  script,          \* which script runs
  args,            \* code_col, value_col, scheme
  input,           \* the CSV's table / the dataframe as the caller built it
  dataset,         \* the rows of the external geometry dataset
  pc,              \* the statement the run is at
  df,              \* the value table (in pain_to_map: the caller's object)
  world,           \* the geometry table
  merged,          \* the merged table
  missing_codes,   \* the codes the warning lists
  warned,          \* the warnings issued, in order
  crs,             \* the projection the merged table is in
  classifier,      \* the classifier classify_values returned
  cmap,            \* the color scale
  column_to_plot,  \* the column handed to the renderer
  plotted,         \* the column the renderer was given
  drawn,           \* the fill of each merged row on the map
  files,           \* how often the output file was written
  stdout,          \* what was printed to stdout
  stderr,          \* what was printed to stderr
  result,          \* exit status / return value
  log              \* the stages completed, in order

vars == <<script, args, input, dataset, pc, df, world, merged, missing_codes,
          warned, crs, classifier, cmap, column_to_plot, plotted, drawn,
          files, stdout, stderr, result, log>>

inputs == <<script, args, input, dataset>>

Init ==
  /\ script \in Scripts
  /\ args \in [code_col : {DefaultCodeCol(script)},
               value_col : ValueCols(script),
               scheme : IF script = "color_world_map" THEN Schemes ELSE {NoScheme}]
  /\ input \in InputTables(args.code_col)
  /\ dataset \in Datasets
  /\ pc = IF script = "color_world_map" THEN "read_csv" ELSE "check_columns"
  /\ df = IF script = "color_world_map" THEN EmptyTable ELSE input
  /\ world = EmptyTable
  /\ merged = EmptyTable
  /\ missing_codes = <<>>
  /\ warned = <<>>
  /\ crs = "none"
  /\ classifier = "unset"
  /\ cmap = "unset"
  /\ column_to_plot = "unset"
  /\ plotted = "unset"
  /\ drawn = <<>>
  /\ files = 0
  /\ stdout = <<>>
  /\ stderr = <<>>
  /\ result = "running"
  /\ log = <<>>

\* The run ends: sys.exit / return / an exception nothing catches
Finish(res) == pc' = "done" /\ result' = res

-----------------------------------------------------------------------------
(* The library calls both scripts make *)

\* gpd.read_file: the dataset as a table whose name and code columns are
\* called nameCol and codeCol
ReadFile(ds, nameCol, codeCol) ==
  [cols |-> {nameCol, codeCol, "geometry"},
   rows |-> [i \in 1..Len(ds) |->
              [c \in {nameCol, codeCol, "geometry"} |->
                IF c = nameCol THEN ds[i].name
                ELSE IF c = codeCol THEN ds[i].code ELSE ds[i].geometry]]]

BothColumnsMissing(t, a) == a.code_col \notin t.cols /\ a.value_col \notin t.cols

\* The missing-columns test of both scripts
ColumnsMissing(t, a) == a.code_col \notin t.cols \/ a.value_col \notin t.cols

\* t[code_col] = t[code_col].astype(str).str.upper().str.strip()
CleanCodes(t, code_col) ==
  SetColumn(t, code_col, [i \in 1..Len(t.rows) |-> CleanCode(t.rows[i][code_col])])

\* set(t[code_col].unique())
ProvidedCodes(t, code_col) == {t.rows[i][code_col] : i \in 1..Len(t.rows)}

\* set(m.loc[~m[value_col].isna(), key].unique())
MatchedCodes(m, value_col, key) ==
  {m.rows[i][key] : i \in {j \in 1..Len(m.rows) : ~IsNa(m.rows[j][value_col])}}

\* sorted(provided_codes - matched_codes)
MissingCodes(t, m, a, key) ==
  Sorted(ProvidedCodes(t, a.code_col) \ MatchedCodes(m, a.value_col, key))

\* What GeoDataFrame.plot is given for rows without a value: missing_kwds or nothing
NoMissingKwds == [given |-> FALSE]
MissingKwds(color) == [given |-> TRUE, color |-> color]

\* GeoDataFrame.plot(column=..., cmap=..., missing_kwds=...): the fill of each
\* row.  A row whose cell is NaN is filled as missing_kwds says, and is not
\* drawn when no missing_kwds are given; the others take a color of the scale.
Render(m, column, missing_kwds) ==
  [i \in 1..Len(m.rows) |->
    IF IsNa(m.rows[i][column])
    THEN IF missing_kwds.given THEN missing_kwds.color ELSE "undrawn"
    ELSE "scale"]

-----------------------------------------------------------------------------
(* color_world_map.py *)

\* load_world(): read the dataset, then the three corrections
load_world(ds) ==
  LET w0 == ReadFile(ds, "name", "iso_a3")
      w1 == LocAssign(w0, "name", "France", "iso_a3", FRA)
      w2 == LocAssign(w1, "name", "Norway", "iso_a3", NOR)
  IN LocAssign(w2, "name", "Somaliland", "iso_a3", SOL)

\* str.lower() on the scheme names that are tried
Lower(name) == CASE name = "Quantiles" -> "quantiles" [] OTHER -> name

\* classify_values(series, scheme, k): the classifier built, "None" for none
classify_values(scheme) ==
  LET sch == Lower(IF scheme = NoScheme THEN "" ELSE scheme)
  IN IF sch \in {"quantiles", "quantile", "q"} THEN "Quantiles"
     ELSE IF sch \in {"equal_interval", "equalinterval", "equal", "ei"}
       THEN "EqualInterval"
     ELSE IF sch \in {"natural_breaks", "jenks", "nb"} THEN "NaturalBreaks"
     ELSE IF sch \in {"std_mean", "std", "zscore"} THEN "StdMean"
     ELSE "None"

\* Python's truth value of args.scheme
SchemeGiven(scheme) == scheme \notin {NoScheme, ""}

\* df = pd.read_csv(args.data), or the message and exit status 1
Main_ReadCsv ==
  /\ script = "color_world_map" /\ pc = "read_csv"
  /\ \E ok \in BOOLEAN :
       IF ok
       THEN /\ df' = input
            /\ pc' = "check_columns"
            /\ log' = Append(log, "read_csv")
            /\ UNCHANGED <<stderr, result>>
       ELSE /\ stderr' = Append(stderr, "Failed to read CSV")
            /\ Finish("exit1")
            /\ UNCHANGED <<df, log>>
  /\ UNCHANGED <<inputs, world, merged, missing_codes, warned, crs, classifier,
                 cmap, column_to_plot, plotted, drawn, files, stdout>>

\* if args.code_col not in df.columns or args.value_col not in df.columns
Main_CheckColumns ==
  /\ script = "color_world_map" /\ pc = "check_columns"
  /\ IF ColumnsMissing(df, args)
     THEN /\ stderr' = Append(stderr, "CSV must include columns")
          /\ Finish("exit1")
          /\ UNCHANGED log
     ELSE /\ pc' = "clean_codes"
          /\ log' = Append(log, "check_columns")
          /\ UNCHANGED <<stderr, result>>
  /\ UNCHANGED <<inputs, df, world, merged, missing_codes, warned, crs,
                 classifier, cmap, column_to_plot, plotted, drawn, files, stdout>>

\* df[args.code_col] = df[args.code_col].astype(str).str.upper().str.strip()
\* (df[...] of a column the table lacks raises KeyError)
Main_CleanCodes ==
  /\ script = "color_world_map" /\ pc = "clean_codes"
  /\ IF args.code_col \in df.cols
     THEN /\ df' = CleanCodes(df, args.code_col)
          /\ pc' = "load_world"
          /\ log' = Append(log, "clean_codes")
          /\ UNCHANGED result
     ELSE /\ Finish("raised")
          /\ UNCHANGED <<df, log>>
  /\ UNCHANGED <<inputs, world, merged, missing_codes, warned, crs, classifier,
                 cmap, column_to_plot, plotted, drawn, files, stdout, stderr>>

\* world = load_world()
Main_LoadWorld ==
  /\ script = "color_world_map" /\ pc = "load_world"
  /\ world' = load_world(dataset)
  /\ pc' = "merge"
  /\ log' = Append(log, "load_world")
  /\ UNCHANGED <<inputs, df, merged, missing_codes, warned, crs, classifier,
                 cmap, column_to_plot, plotted, drawn, files, stdout, stderr, result>>

\* merged = world.merge(df[[code_col, value_col]], left_on="iso_a3", ...)
Main_Merge ==
  /\ script = "color_world_map" /\ pc = "merge"
  /\ IF {args.code_col, args.value_col} \subseteq df.cols
     THEN /\ merged' = Merge(world, Select(df, {args.code_col, args.value_col}),
                             ISO_A3, args.code_col)
          /\ pc' = "warn"
          /\ log' = Append(log, "merge")
          /\ UNCHANGED result
     ELSE /\ Finish("raised")
          /\ UNCHANGED <<merged, log>>
  /\ UNCHANGED <<inputs, df, world, missing_codes, warned, crs, classifier,
                 cmap, column_to_plot, plotted, drawn, files, stdout, stderr>>

\* The warning about the codes that did not match
Main_Warn ==
  /\ script = "color_world_map" /\ pc = "warn"
  /\ missing_codes' = MissingCodes(df, merged, args, ISO_A3)
  /\ warned' = IF missing_codes' # <<>> THEN Append(warned, "unmatched") ELSE warned
  /\ pc' = "project"
  /\ log' = Append(log, "warn")
  /\ UNCHANGED <<inputs, df, world, merged, crs, classifier, cmap,
                 column_to_plot, plotted, drawn, files, stdout, stderr, result>>

\* merged.to_crs(crs); on an exception a warning and to_crs(PlateCarree),
\* which nothing guards
Main_Project ==
  /\ script = "color_world_map" /\ pc = "project"
  /\ \E outcome \in {"ok", "fallback", "fails"} :
       /\ warned' = IF outcome = "ok" THEN warned ELSE Append(warned, "projection")
       /\ IF outcome = "fails"
          THEN /\ Finish("raised")
               /\ UNCHANGED <<crs, log>>
          ELSE /\ crs' = IF outcome = "ok" THEN "Robinson" ELSE "PlateCarree"
               /\ pc' = "scale"
               /\ log' = Append(log, "project")
               /\ UNCHANGED result
  /\ UNCHANGED <<inputs, df, world, merged, missing_codes, classifier, cmap,
                 column_to_plot, plotted, drawn, files, stdout, stderr>>

\* Classification, or the continuous scale
Main_Scale ==
  /\ script = "color_world_map" /\ pc = "scale"
  /\ LET values == Column(merged, args.value_col)
         valid == SelectSeq(values, LAMBDA v : ~IsNa(v))
     IN IF SchemeGiven(args.scheme)
        THEN IF Len(valid) = 0
             THEN /\ stderr' = Append(stderr, "No numeric values to classify.")
                  /\ Finish("exit1")
                  /\ UNCHANGED <<classifier, cmap, merged, column_to_plot, log>>
             ELSE /\ classifier' = classify_values(args.scheme)
                  /\ IF classifier' = "None"
                     \* classifier.bins of None: AttributeError
                     THEN /\ Finish("raised")
                          /\ UNCHANGED <<cmap, merged, column_to_plot, log, stderr>>
                     \* the library decides the class of a row without a value
                     ELSE \E naBinned \in BOOLEAN :
                          LET class == [i \in 1..Len(values) |->
                                         IF IsNa(values[i]) /\ ~naBinned
                                         THEN NaN ELSE <<"bin">>]
                          IN /\ cmap' = "discrete"
                             /\ merged' = SetColumn(merged, "_class", class)
                             /\ column_to_plot' = "_class"
                             /\ pc' = "plot"
                             /\ log' = Append(log, "scale")
                             /\ UNCHANGED <<stderr, result>>
        ELSE /\ cmap' = "continuous"
             /\ column_to_plot' = args.value_col
             /\ pc' = "plot"
             /\ log' = Append(log, "scale")
             /\ UNCHANGED <<classifier, merged, stderr, result>>
  /\ UNCHANGED <<inputs, df, world, missing_codes, warned, crs, plotted, drawn,
                 files, stdout>>

\* merged.plot(ax=ax, **plot_kwargs).  --legend and --label-topn are at
\* their defaults (off): the legend would draw the same plot again, and the
\* labels only add text, any failure there being caught.
Main_Plot ==
  /\ script = "color_world_map" /\ pc = "plot"
  /\ plotted' = column_to_plot
  /\ drawn' = Render(merged, column_to_plot, MissingKwds(MissingColor))
  /\ pc' = "save"
  /\ log' = Append(log, "plot")
  /\ UNCHANGED <<inputs, df, world, merged, missing_codes, warned, crs,
                 classifier, cmap, column_to_plot, files, stdout, stderr, result>>

\* plt.savefig and "Saved", or the message and exit status 1
Main_Save ==
  /\ script = "color_world_map" /\ pc = "save"
  /\ \E ok \in BOOLEAN :
       IF ok
       THEN /\ files' = files + 1
            /\ stdout' = Append(stdout, "Saved")
            /\ log' = Append(log, "save")
            /\ Finish("exit0")
            /\ UNCHANGED stderr
       ELSE /\ stderr' = Append(stderr, "Failed to save figure")
            /\ Finish("exit1")
            /\ UNCHANGED <<files, stdout, log>>
  /\ UNCHANGED <<inputs, df, world, merged, missing_codes, warned, crs,
                 classifier, cmap, column_to_plot, plotted, drawn>>

-----------------------------------------------------------------------------
(* pain-to-map.py *)

\* _load_world(file_path): read the dataset, then the three corrections,
\* written to the column "sov_a3"
_load_world(ds) ==
  LET w0 == ReadFile(ds, "SOVEREIGNT", "SOV_A3")
      w1 == LocAssign(w0, "SOVEREIGNT", "France", "sov_a3", FRA)
      w2 == LocAssign(w1, "SOVEREIGNT", "Norway", "sov_a3", NOR)
  IN LocAssign(w2, "SOVEREIGNT", "Somaliland", "sov_a3", SOL)

\* The column generate_map names in its call of merged.plot
PlotColumn == "value"

\* if args_code_col not in dataframe.columns or args_value_col not in ...: return
Gen_CheckColumns ==
  /\ script = "pain_to_map" /\ pc = "check_columns"
  /\ IF ColumnsMissing(df, args)
     THEN /\ stderr' = Append(stderr, "CSV must include columns")
          /\ Finish("None")
          /\ UNCHANGED log
     ELSE /\ pc' = "clean_codes"
          /\ log' = Append(log, "check_columns")
          /\ UNCHANGED <<stderr, result>>
  /\ UNCHANGED <<inputs, df, world, merged, missing_codes, warned, crs,
                 classifier, cmap, column_to_plot, plotted, drawn, files, stdout>>

\* dataframe[args_code_col] = dataframe[args_code_col].astype(str)...
\* assigns into the dataframe the caller passed
Gen_CleanCodes ==
  /\ script = "pain_to_map" /\ pc = "clean_codes"
  /\ IF args.code_col \in df.cols
     THEN /\ df' = CleanCodes(df, args.code_col)
          /\ pc' = "load_world"
          /\ log' = Append(log, "clean_codes")
          /\ UNCHANGED result
     ELSE /\ Finish("raised")
          /\ UNCHANGED <<df, log>>
  /\ UNCHANGED <<inputs, world, merged, missing_codes, warned, crs, classifier,
                 cmap, column_to_plot, plotted, drawn, files, stdout, stderr>>

\* world = _load_world(world_path)
Gen_LoadWorld ==
  /\ script = "pain_to_map" /\ pc = "load_world"
  /\ world' = _load_world(dataset)
  /\ pc' = "merge"
  /\ log' = Append(log, "load_world")
  /\ UNCHANGED <<inputs, df, merged, missing_codes, warned, crs, classifier,
                 cmap, column_to_plot, plotted, drawn, files, stdout, stderr,
                 result>>

\* merged = world.merge(dataframe[[code_col, value_col]], left_on=CODE_COLUMN, ...)
Gen_Merge ==
  /\ script = "pain_to_map" /\ pc = "merge"
  /\ IF {args.code_col, args.value_col} \subseteq df.cols
     THEN /\ merged' = Merge(world, Select(df, {args.code_col, args.value_col}),
                             CODE_COLUMN, args.code_col)
          /\ pc' = "warn"
          /\ log' = Append(log, "merge")
          /\ UNCHANGED result
     ELSE /\ Finish("raised")
          /\ UNCHANGED <<merged, log>>
  /\ UNCHANGED <<inputs, df, world, missing_codes, warned, crs, classifier,
                 cmap, column_to_plot, plotted, drawn, files, stdout, stderr>>

\* The warning about the codes that did not match
Gen_Warn ==
  /\ script = "pain_to_map" /\ pc = "warn"
  /\ missing_codes' = MissingCodes(df, merged, args, CODE_COLUMN)
  /\ warned' = IF missing_codes' # <<>> THEN Append(warned, "unmatched") ELSE warned
  /\ pc' = "project"
  /\ log' = Append(log, "warn")
  /\ UNCHANGED <<inputs, df, world, merged, crs, classifier, cmap,
                 column_to_plot, plotted, drawn, files, stdout, stderr, result>>

\* merged.to_crs(PlateCarree); on an exception a warning and the same call
\* again, which nothing guards
Gen_Project ==
  /\ script = "pain_to_map" /\ pc = "project"
  /\ \E outcome \in {"ok", "fails"} :
       IF outcome = "ok"
       THEN /\ crs' = "PlateCarree"
            /\ pc' = "scale"
            /\ log' = Append(log, "project")
            /\ UNCHANGED <<warned, result>>
       ELSE /\ warned' = Append(warned, "projection")
            /\ Finish("raised")
            /\ UNCHANGED <<crs, log>>
  /\ UNCHANGED <<inputs, df, world, merged, missing_codes, classifier, cmap,
                 column_to_plot, plotted, drawn, files, stdout, stderr>>

\* column_to_plot = args_value_col
Gen_Scale ==
  /\ script = "pain_to_map" /\ pc = "scale"
  /\ column_to_plot' = args.value_col
  /\ pc' = "plot"
  /\ log' = Append(log, "scale")
  /\ UNCHANGED <<inputs, df, world, merged, missing_codes, warned, crs,
                 classifier, cmap, plotted, drawn, files, stdout, stderr, result>>

\* merged.plot(column="value", ax=ax, cmap=cmap): plot_kwargs is built and
\* not passed; a merged table without the column "value" raises KeyError
Gen_Plot ==
  /\ script = "pain_to_map" /\ pc = "plot"
  /\ plotted' = PlotColumn
  /\ IF plotted' \in merged.cols
     THEN /\ cmap' = "continuous"
          /\ drawn' = Render(merged, plotted', NoMissingKwds)
          /\ pc' = "save"
          /\ log' = Append(log, "plot")
          /\ UNCHANGED result
     ELSE /\ Finish("raised")
          /\ UNCHANGED <<cmap, drawn, log>>
  /\ UNCHANGED <<inputs, df, world, merged, missing_codes, warned, crs,
                 classifier, column_to_plot, files, stdout, stderr>>

\* plt.savefig, "Saved" and return True, or the message and return False
Gen_Save ==
  /\ script = "pain_to_map" /\ pc = "save"
  /\ \E ok \in BOOLEAN :
       IF ok
       THEN /\ files' = files + 1
            /\ stdout' = Append(stdout, "Saved")
            /\ log' = Append(log, "save")
            /\ Finish("True")
            /\ UNCHANGED stderr
       ELSE /\ stderr' = Append(stderr, "Failed to save figure")
            /\ Finish("False")
            /\ UNCHANGED <<files, stdout, log>>
  /\ UNCHANGED <<inputs, df, world, merged, missing_codes, warned, crs,
                 classifier, cmap, column_to_plot, plotted, drawn>>

-----------------------------------------------------------------------------

Next ==
  \/ Main_ReadCsv
  \/ Main_CheckColumns
  \/ Main_CleanCodes
  \/ Main_LoadWorld
  \/ Main_Merge
  \/ Main_Warn
  \/ Main_Project
  \/ Main_Scale
  \/ Main_Plot
  \/ Main_Save
  \/ Gen_CheckColumns
  \/ Gen_CleanCodes
  \/ Gen_LoadWorld
  \/ Gen_Merge
  \/ Gen_Warn
  \/ Gen_Project
  \/ Gen_Scale
  \/ Gen_Plot
  \/ Gen_Save

Spec == Init /\ [][Next]_vars

-----------------------------------------------------------------------------
(* What the claims speak of *)

\* The column the script joins the geometry table on
JoinKey == IF script = "color_world_map" THEN ISO_A3 ELSE CODE_COLUMN

\* The dataset's column of country names, as the script reads it
NameCol == IF script = "color_world_map" THEN "name" ELSE "SOVEREIGNT"

Rows(t) == 1..Len(t.rows)

Range(seq) == {seq[i] : i \in 1..Len(seq)}

\* The value rows whose code equals the join code of geometry row g
MatchingRows(g) == {j \in Rows(df) : df.rows[j][args.code_col] = g[JoinKey]}

\* The merged rows that carry the polygon of geometry row g
MergedRowsOf(g) == {m \in Rows(merged) : merged.rows[m]["geometry"] = g["geometry"]}

\* C1: once the join is done, the merged table is the left join of the
\* geometry table with the value table: every merged row carries the polygon
\* and join code of a geometry row; a geometry row with matching value rows
\* has one merged row per matching value row (duplicates included), with that
\* row's value; a geometry row with none has exactly one merged row, with a
\* null value.
C1_LeftJoin ==
  "merge" \in Range(log) =>
    /\ \A m \in Rows(merged) : \E i \in Rows(world) :
         /\ merged.rows[m]["geometry"] = world.rows[i]["geometry"]
         /\ merged.rows[m][JoinKey] = world.rows[i][JoinKey]
    /\ \A i \in Rows(world) :
         LET g == world.rows[i]
         IN /\ \A v \in InputValues :
                 Cardinality({m \in MergedRowsOf(g) :
                                merged.rows[m][args.value_col] = v})
                   = IF MatchingRows(g) = {}
                     THEN (IF IsNa(v) THEN 1 ELSE 0)
                     ELSE Cardinality({j \in MatchingRows(g) :
                                         df.rows[j][args.value_col] = v})
            /\ \A m \in MergedRowsOf(g) : merged.rows[m][args.value_col] \in InputValues

\* C1: a join in which one geometry row meets a duplicated code (two merged
\* rows) and another geometry row has no value row (one merged row, null).
C1_Witness ==
  /\ "merge" \in Range(log)
  /\ \E i, k \in Rows(world) :
       /\ Cardinality(MatchingRows(world.rows[i])) = 2
       /\ Cardinality(MergedRowsOf(world.rows[i])) = 2
       /\ MatchingRows(world.rows[k]) = {}
       /\ Cardinality(MergedRowsOf(world.rows[k])) = 1

\* The codes of the value table that equal the join code of no geometry row
UnmatchedCodes ==
  {c \in ProvidedCodes(df, args.code_col) :
     \A i \in Rows(world) : world.rows[i][JoinKey] # c}

\* C2: once the warning step has run, a warning was issued exactly if some
\* code of the value table equals the join code of no geometry row, the
\* codes listed are exactly those, sorted, and the run goes on to the
\* projection.
C2_WarnsExactlyUnmatched ==
  "warn" \in Range(log) =>
    /\ ("unmatched" \in Range(warned)) <=> (UnmatchedCodes # {})
    /\ missing_codes = Sorted(UnmatchedCodes)
    /\ log[Len(log)] = "warn" => pc = "project"

\* C3: once the map is plotted, every merged row is drawn: a row with a null
\* value in the missing color, a row with a value in a color of the scale.
C3_MissingColorDrawn ==
  "plot" \in Range(log) =>
    /\ Len(drawn) = Len(merged.rows)
    /\ \A m \in Rows(merged) :
         drawn[m] = IF IsNa(merged.rows[m][args.value_col])
                    THEN MissingColor ELSE "scale"

\* The code the corrections give a country, or the dataset's own
CorrectedCode(row) ==
  IF row.name = "France" THEN FRA
  ELSE IF row.name = "Norway" THEN NOR
  ELSE IF row.name = "Somaliland" THEN SOL
  ELSE row.code

\* C4: once the geometry loader has run, the join column holds FRA, NOR and
\* SOL for France, Norway and Somaliland and the dataset's code for every
\* other row, and the table has the dataset's rows and columns, no more.
C4_OnlyThreeCorrections ==
  "load_world" \in Range(log) =>
    /\ world.cols = {NameCol, JoinKey, "geometry"}
    /\ Len(world.rows) = Len(dataset)
    /\ \A i \in Rows(world) :
         /\ world.rows[i][JoinKey] = CorrectedCode(dataset[i])
         /\ world.rows[i][NameCol] = dataset[i].name
         /\ world.rows[i]["geometry"] = dataset[i].geometry

\* C5: when generate_map has returned (True, False or None), the dataframe
\* the caller passed holds what it held before the call.
C5_CallerDataframeUnchanged ==
  (script = "pain_to_map" /\ result \in {"True", "False", "None"}) => df = input

\* C6: when the value table lacks the code column or the value column, no
\* geometry is ever loaded, nothing is joined or drawn, no file is written
\* and "Saved" is never printed; the run ends with the one error message,
\* color_world_map with exit status 1 (its status when the CSV cannot be
\* read, too) and generate_map returning None.
C6_MissingColumnsStop ==
  /\ (args.code_col \notin input.cols \/ args.value_col \notin input.cols) =>
       /\ world = EmptyTable /\ merged = EmptyTable /\ drawn = <<>>
       /\ files = 0 /\ stdout = <<>>
       /\ Range(log) \subseteq {"read_csv"}
       /\ pc = "done" =>
            IF script = "color_world_map"
            THEN /\ result = "exit1"
                 /\ stderr \in {<<"CSV must include columns">>, <<"Failed to read CSV">>}
            ELSE /\ result = "None"
                 /\ stderr = <<"CSV must include columns">>
  /\ "Failed to read CSV" \in Range(stderr) =>
       result = "exit1" /\ files = 0 /\ stdout = <<>> /\ world = EmptyTable

\* C6: color_world_map has stopped on a CSV without the value column.
C6_Witness ==
  /\ script = "color_world_map" /\ pc = "done"
  /\ args.code_col \in input.cols /\ args.value_col \notin input.cols
  /\ input.rows # <<>>
  /\ stderr = <<"CSV must include columns">> /\ result = "exit1"

\* The stages of a run, in the order of the script
StageOrder ==
  (IF script = "color_world_map" THEN <<"read_csv">> ELSE <<>>)
    \o <<"check_columns", "clean_codes", "load_world", "merge", "warn",
         "project", "scale", "plot", "save">>

\* Exit status 1: sys.exit(1), or an exception that ends the interpreter
Failed ==
  IF script = "color_world_map" THEN result \in {"exit1", "raised"}
  ELSE result = "False"

Saved == result = (IF script = "color_world_map" THEN "exit0" ELSE "True")

\* C7: the stages run in the script's order, the file is written at most
\* once and only after all stages before it, and a finished run has either
\* saved the image ("Saved" printed, status 0 / True) or failed (status 1 /
\* False), never both and never neither.
C7_LinearRunTwoOutcomes ==
  /\ log = SubSeq(StageOrder, 1, Len(log))
  /\ files <= 1
  /\ files = 1 => log = StageOrder
  /\ pc = "done" =>
       \/ Saved /\ files = 1 /\ stdout = <<"Saved">>
       \/ Failed /\ files = 0 /\ stdout = <<>>

RecognizedSchemes ==
  {"quantiles", "quantile", "q", "equal_interval", "equalinterval", "equal",
   "ei", "natural_breaks", "jenks", "nb", "std_mean", "std", "zscore"}

\* Some merged row has a value
SomeValue == \E m \in Rows(merged) : ~IsNa(merged.rows[m][args.value_col])

\* C8: in a finished run of color_world_map that reached the color scale
\* with --scheme given: an unrecognized name and some value -> continuous
\* scale on the value column and the image saved (unless saving fails); a
\* recognized name and some value -> the class column on a discrete scale;
\* no value at all -> exit status 1 and no image.
C8_SchemeOutcomes ==
  (script = "color_world_map" /\ pc = "done" /\ "project" \in Range(log)
     /\ args.scheme # NoScheme) =>
    IF ~SomeValue
    THEN result = "exit1" /\ files = 0
    ELSE IF Lower(args.scheme) \in RecognizedSchemes
    THEN column_to_plot = "_class" /\ cmap = "discrete" /\ plotted = "_class"
    ELSE /\ classifier = "None"
         /\ \/ result = "exit0" /\ cmap = "continuous" /\ plotted = args.value_col
            \/ "Failed to save figure" \in Range(stderr)

\* C9: the column generate_map hands to the renderer is the column named by
\* args_value_col, the one it validated and joined.
C9_PlotsValueColumn ==
  (script = "pain_to_map" /\ plotted # "unset") =>
    plotted = args.value_col /\ plotted = column_to_plot

\* s without its leading and trailing spaces, by position
Core(s) ==
  LET ns == {i \in 1..Len(s) : ~IsSpace(s[i])}
  IN IF ns = {} THEN <<>>
     ELSE SubSeq(s, CHOOSE i \in ns : \A j \in ns : i <= j,
                    CHOOSE i \in ns : \A j \in ns : i >= j)

\* Two code cells that differ at most in case and surrounding whitespace
DifferOnlyInCaseAndSpace(c, d) ==
  IF IsNa(c) \/ IsNa(d) THEN c = d
  ELSE LET cc == Core(c)
           dd == Core(d)
       IN /\ Len(cc) = Len(dd)
          /\ \A i \in 1..Len(cc) : UpperChar(cc[i]) = UpperChar(dd[i])

\* The sequences of codes that differ from cs in those respects only
RECURSIVE AltCodes(_)
AltCodes(cs) ==
  IF cs = <<>> THEN {<<>>}
  ELSE {<<c>> \o rest :
          c \in {d \in InputCodes : DifferOnlyInCaseAndSpace(d, Head(cs))},
          rest \in AltCodes(Tail(cs))}

\* The value tables that differ from the input in those respects only
AltTables ==
  {[cols |-> input.cols,
    rows |-> [i \in Rows(input) |-> [input.rows[i] EXCEPT ![args.code_col] = f[i]]]] :
     f \in AltCodes(Column(input, args.code_col))}

\* The geometry table the run's loader gives
WorldOf == IF script = "color_world_map" THEN load_world(dataset) ELSE _load_world(dataset)

\* The merged table the join gives for geometry table w and cleaned value table c
MergedOf(w, c) ==
  Merge(w, Select(c, {args.code_col, args.value_col}), JoinKey, args.code_col)

\* C10: once the codes are cleaned, each code of the value table is the
\* text of the original (nan for a missing one) in upper case without its
\* surrounding spaces, the other columns are as they were, and cleaning
\* again changes nothing; the geometry rows the corrections do not name keep
\* the dataset's code as it is; and when the join and the warning are done,
\* every value table that differs from the input only in the case and the
\* surrounding whitespace of its codes gives the same merged table and the
\* same list of unmatched codes.
C10_CodesNormalized ==
  /\ "clean_codes" \in Range(log) =>
       /\ \A i \in Rows(df) :
            LET orig == input.rows[i][args.code_col]
                text == IF IsNa(orig) THEN <<"n", "a", "n">> ELSE orig
                core == Core(text)
            IN /\ df.rows[i][args.code_col]
                    = [k \in 1..Len(core) |-> UpperChar(core[k])]
               /\ df.rows[i][args.value_col] = input.rows[i][args.value_col]
       /\ Len(df.rows) = Len(input.rows)
       /\ CleanCodes(df, args.code_col) = df
  /\ "load_world" \in Range(log) =>
       \A i \in Rows(world) :
         dataset[i].name \notin {"France", "Norway", "Somaliland"}
           => world.rows[i][JoinKey] = dataset[i].code
  /\ (log # <<>> /\ log[Len(log)] = "warn") =>
       LET w == WorldOf
       IN \A t \in AltTables :
            LET c == CleanCodes(t, args.code_col)
                m == MergedOf(w, c)
            IN m = merged /\ MissingCodes(c, m, args, JoinKey) = missing_codes

\* C10: the warning step is done for a value table with a code in lower case
\* behind a space, which another spelling could replace, that matched a
\* geometry row, while a code equal to a geometry code but for its case
\* matched none.
C10_Witness ==
  /\ log # <<>> /\ log[Len(log)] = "warn"
  /\ Cardinality(AltTables) > 1
  /\ \E i \in Rows(input) :
       /\ input.rows[i][args.code_col] = <<" ", "n", "o", "r">>
       /\ \E m \in Rows(merged) :
            /\ merged.rows[m][JoinKey] = df.rows[i][args.code_col]
            /\ ~IsNa(merged.rows[m][args.value_col])
  /\ \E i \in Rows(input), g \in Rows(world) :
       /\ input.rows[i][args.code_col] = world.rows[g][JoinKey]
       /\ df.rows[i][args.code_col] # world.rows[g][JoinKey]
       /\ df.rows[i][args.code_col] \in Range(missing_codes)

====
